---- MODULE Spec2Model ----
(***************************************************************************)
(* Streaming client of the real-time background segmentation front end.    *)
(*                                                                         *)
(* The module models the Home component of                                 *)
(* src/client/components/RecordingStudio.tsx (connection manager, capture  *)
(* loop, inbound message dispatch) and the scoring functions of            *)
(* src/client/components/PerformanceDashboard.tsx.                         *)
(*                                                                         *)
(* The file holds two live copies of Home whose handlers are the same      *)
(* line for line (1472-2812 and 2880-3912); they differ in the guard of    *)
(* the start button.  uiVariant selects the copy; source references name   *)
(* the first copy.                                                         *)
(*                                                                         *)
(* One step of the model is one task of the browser's event loop: a click  *)
(* handler, a socket event, a timer, an animation-frame callback, an image *)
(* load, the continuation of an await.  The state updates a task queues    *)
(* are committed with the re-render and the effects they trigger in the    *)
(* same step.  Values a callback captured at the render that created it    *)
(* are stored with the callback (the isStreaming field of a transport, of  *)
(* a timer, of a scheduled loop).                                          *)
(***************************************************************************)
EXTENDS Integers, Sequences, FiniteSets, TLC

\* ------------------------------------------------------------------ bounds
MaxWs == 2          \* transport objects that are not yet closed and collected
MaxTimers == 1      \* reconnect timers pending at once
MaxReconnect == 1   \* cap of the reconnect counter
MaxStarts == 1      \* start continuations awaiting the camera at once
MaxDecodes == 1     \* image decodes pending at once
MaxProcessed == 1   \* cap of the processed-frame counter
MaxSteady == 20     \* longest run of equal samples in a dashboard window
MaxPower == 4       \* byte counts handed to formatFileSize are below 1024^(MaxPower + 1)
MaxRecorders == 2   \* MediaRecorder objects created by the studio
MaxTicks == 1       \* largest value the studio's recordingTime reaches
MaxChunks == 1      \* segments a recording buffer holds
MaxBurst == 2       \* images loading at once when the engine sends replies in a burst

\* ------------------------------------------------------------------- state
VARIABLES
    uiVariant,          \* "A": Home at 1472, "B": Home at 2880
    isStreaming,        \* streamState.isStreaming
    latency,            \* streamState.latency: "0", or "measured" for now - timestamp
    isConnected,        \* connectionState.isConnected
    isConnecting,       \* connectionState.isConnecting
    reconnectCount,     \* connectionState.reconnectCount
    ws,                 \* the WebSocket objects with a handler left to run, oldest first
    wsRef,              \* wsRef.current: 0 is null, else an index of ws
    timers,             \* pending reconnect timers, by captured isStreaming
    processingRef,      \* processingRef.current: the in-flight gate
    rafQueue,           \* scheduled animation-frame callbacks
    animationFrameRef,  \* animationFrameRef.current: 0 is undefined
    video,              \* the capture surface: "none", "loading", "ready"
    pendingStarts,      \* startCamera calls suspended at an await
    decodes,            \* images whose onload has not fired yet
    processedFrames,    \* sessionStats.processedFrames
    canvas,             \* what the render surface shows
    scene,              \* the picture the camera shows; it changes at every refresh
    wire,               \* the frame message the last step transmitted, if any
    sendsSinceClear,    \* frame messages transmitted since the gate was last cleared
    dropped,            \* a cycle was refused by the gate since the last transmission
    logged,             \* what the last step added to the activity feed, if anything
    data,               \* PerformanceDashboard: the data prop
    score,              \* PerformanceDashboard: performanceScore of the last render
    grade,              \* PerformanceDashboard: grade.grade of the last render
    fpsTrend,           \* PerformanceDashboard: bar heights of the FPS Trend chart, in percent
    fps,                \* streamState.fps
    bitrate,            \* streamState.bitrate
    quality,            \* streamState.quality
    bytes,              \* RecordingStudio: the argument of formatFileSize
    formatted,          \* RecordingStudio: the text formatFileSize returned for it
    propStreaming,      \* RecordingStudio: the isStreaming prop its parent passes
    isRecording,        \* RecordingStudio: state, as of the last render
    recordingTime,      \* RecordingStudio: state, seconds shown
    recordings,         \* RecordingStudio: state, the catalog, newest first
    recorders,          \* every MediaRecorder created, in creation order
    mediaRecorderRef,   \* index in recorders of mediaRecorderRef.current, 0 when null
    recordedChunksRef,  \* recordedChunksRef.current: sizes of the buffered segments
    intervals,          \* the setInterval timers that are running
    recordingIntervalRef, \* the timer recordingIntervalRef.current names, 0 when null
    output              \* what the last step handed to the browser or the console

vars == <<uiVariant, isStreaming, latency, isConnected, isConnecting, reconnectCount,
          ws, wsRef, timers, processingRef, rafQueue, animationFrameRef,
          video, pendingStarts, decodes, processedFrames, canvas, scene, wire,
          sendsSinceClear, dropped, logged, data, score, grade, fpsTrend,
          fps, bitrate, quality,
          bytes, formatted, propStreaming, isRecording, recordingTime, recordings,
          recorders, mediaRecorderRef, recordedChunksRef, intervals,
          recordingIntervalRef, output>>

\* The state of the Home component.
home == <<uiVariant, isStreaming, latency, isConnected, isConnecting, reconnectCount,
          ws, wsRef, timers, processingRef, rafQueue, animationFrameRef,
          video, pendingStarts, decodes, processedFrames, canvas, scene, wire,
          sendsSinceClear, dropped, logged, fps, bitrate, quality>>

\* The state of the dashboard component.
dashboard == <<data, score, grade, fpsTrend>>

\* The state of the recording studio component.
recorder == <<propStreaming, isRecording, recordingTime, recordings, recorders,
              mediaRecorderRef, recordedChunksRef, intervals, recordingIntervalRef,
              output>>

studio == <<bytes, formatted, recorder>>

Slots == 1..MaxWs
\* Ids of scheduled animation-frame callbacks; an id that is no longer
\* scheduled is used again.
RafIds == {1, 2}
Scenes == {0, 1}
NoFrame == [snapshot |-> -1, afterDrop |-> FALSE]
\* What a step adds to the activity feed (addLog): nothing, the error it
\* reports, or "info" for entries of the other categories.
LogKinds == {"none", "info", "parse_error", "engine_error", "frame_error", "camera_error"}

Min(a, b) == IF a <= b THEN a ELSE b
Max(a, b) == IF a >= b THEN a ELSE b

\* ----------------------------------------------------------- transports
\* WebSocket.readyState as the code reads it.
readyState(wsv, ref) == IF ref = 0 THEN "NONE" ELSE wsv[ref].readyState

IsLive(w) == w.readyState # "CLOSED"

\* A closed transport that wsRef no longer names has no handler left to run and
\* is dropped.  wsRef names the transport created last (1676).
Collect(wsv) ==
    IF wsv = <<>> THEN wsv
    ELSE SelectSeq(SubSeq(wsv, 1, Len(wsv) - 1), IsLive) \o <<wsv[Len(wsv)]>>

\* The early return of connectWebSocket.
AlreadyConnected(wsv, ref) == readyState(wsv, ref) = "OPEN"

\* new WebSocket(...) finds room in the model.
CanConnect(wsv, ref) == AlreadyConnected(wsv, ref) \/ Len(SelectSeq(wsv, IsLive)) < MaxWs

\* connectWebSocket as created by a render whose streamState.isStreaming was
\* cs: the handlers of the new transport keep cs.
connectWebSocket(cs, wsv, ref, connecting) ==
    IF AlreadyConnected(wsv, ref)
    THEN [created |-> FALSE, ws |-> wsv, wsRef |-> ref, isConnecting |-> connecting]
    ELSE LET made == SelectSeq(wsv, IsLive)
                       \o <<[readyState |-> "CONNECTING", isStreaming |-> cs]>>
         IN  [created |-> TRUE, ws |-> made, wsRef |-> Len(made), isConnecting |-> TRUE]

\* --------------------------------------------------------- capture loop
Outcomes == {"ok", "noctx", "throwEncode", "throwSend"}

\* Faulty variant: the guard without the gate test.
CanSendIgnoringGate(wsv, ref, gate) == readyState(wsv, ref) = "OPEN"

\* Faulty variant: the guard without the readyState test.
CanSendIgnoringTransport(wsv, ref, gate) == ~gate

\* The first guard of sendFrameToBackend (videoRef.current is set while the
\* component is mounted).
CanSend(wsv, ref, gate) == readyState(wsv, ref) = "OPEN" /\ ~gate

\* video.readyState === 4
SurfaceReady(vid) == vid = "ready"

\* A run that leaves the gate as it is and transmits nothing.
NoSend(gate) ==
    [processingRef |-> gate, sent |-> FALSE, cleared |-> FALSE, blocked |-> FALSE,
     log |-> "keep"]

\* The cycle is skipped because a frame is in flight on the open transport.
Blocked(wsv, ref, gate) == readyState(wsv, ref) = "OPEN" /\ gate

\* Faulty variant: the catch block logs and leaves the gate as the try block
\* left it.
CatchWithoutClear(gateSet) ==
    [processingRef |-> gateSet, sent |-> FALSE, cleared |-> FALSE, blocked |-> FALSE,
     log |-> "frame_error"]

\* The catch block of sendFrameToBackend; gateSet tells whether the try block
\* had set the gate before it threw.
CatchFrameError(gateSet) ==
    [processingRef |-> FALSE, sent |-> FALSE, cleared |-> TRUE, blocked |-> FALSE,
     log |-> "frame_error"]

\* sendFrameToBackend.  o is what the browser does in the try block: "noctx"
\* getContext returns null, "throwEncode" drawImage or toDataURL throws,
\* "throwSend" the send call throws, "ok" the message is transmitted.
sendFrameToBackend(wsv, ref, vid, gate, o) ==
    IF ~CanSend(wsv, ref, gate)
    THEN [NoSend(gate) EXCEPT !.blocked = Blocked(wsv, ref, gate)]
    ELSE IF ~SurfaceReady(vid) THEN NoSend(gate)
    ELSE CASE o = "noctx" -> NoSend(gate)
           [] o = "throwEncode" -> CatchFrameError(FALSE)
           [] o = "throwSend" -> CatchFrameError(TRUE)
           [] OTHER ->
                [processingRef |-> TRUE, sent |-> TRUE, cleared |-> FALSE,
                 blocked |-> FALSE, log |-> "keep"]

\* The outcomes to tell apart in a step: those of the try block when the run
\* with these flags gets there, one otherwise.
TryOutcomes(s, c, wsv, ref, vid, gate) ==
    IF s /\ c /\ CanSend(wsv, ref, gate) /\ SurfaceReady(vid) THEN Outcomes ELSE {"ok"}

RafIdsOf(queue) == {cb.id : cb \in queue}
FreshRafIds(queue, aref) == RafIds \ RafIdsOf(queue)

\* requestAnimationFrame(loop): the id is the least one not in use.
requestAnimationFrame(queue, aref, closure) ==
    LET id == CHOOSE i \in FreshRafIds(queue, aref) : \A j \in FreshRafIds(queue, aref) : i <= j
    IN  [rafQueue |-> queue \cup {[id |-> id, isStreaming |-> closure.isStreaming,
                                   isConnected |-> closure.isConnected]},
         animationFrameRef |-> id]

\* Faulty variant: the scheduled callback is left in place.
cancelNothing(queue, aref) == queue

\* if (animationFrameRef.current) cancelAnimationFrame(animationFrameRef.current)
cancelAnimationFrame(queue, aref) == {cb \in queue : cb.id # aref}

\* One run of loop() of startProcessingLoop, with the flags its closure holds.
loop(closure, wsv, ref, vid, gate, queue, aref, o) ==
    LET send == IF closure.isStreaming /\ closure.isConnected
                THEN sendFrameToBackend(wsv, ref, vid, gate, o)
                ELSE NoSend(gate)
        next == IF closure.isStreaming
                THEN requestAnimationFrame(queue, aref, closure)
                ELSE [rafQueue |-> queue, animationFrameRef |-> aref]
    IN  [send |-> send, counted |-> closure.isStreaming /\ closure.isConnected,
         rafQueue |-> next.rafQueue, animationFrameRef |-> next.animationFrameRef]

\* The effect on [isStreaming, isConnected, startProcessingLoop]: when a
\* dependency changed, the cleanup of the previous run cancels the scheduled
\* callback and the new run starts the loop if both flags are set.
ProcessingEffect(changed, s, c, wsv, ref, vid, gate, queue, aref, o) ==
    IF ~changed
    THEN [send |-> NoSend(gate), counted |-> FALSE, rafQueue |-> queue,
          animationFrameRef |-> aref]
    ELSE IF s /\ c
         THEN loop([isStreaming |-> s, isConnected |-> c], wsv, ref, vid, gate,
                   cancelAnimationFrame(queue, aref), aref, o)
         ELSE [send |-> NoSend(gate), counted |-> FALSE,
               rafQueue |-> cancelAnimationFrame(queue, aref), animationFrameRef |-> aref]

\* Faulty variant: the picture of the cycle before is sent.
StaleSnapshot(picture) == 1 - picture

\* tempCtx.drawImage(video, 0, 0): the snapshot is the picture shown when the
\* cycle runs.
Snapshot(picture) == picture

\* What Math.round(frameCount * 1000 / elapsed) comes to once a second has passed.
FpsReadings == {30}

\* bitrate: fps * 2.5
Bitrate(f) == (f * 5) \div 2

\* The fps and bitrate the state holds, for a handler that leaves them alone.
Stats == [fps |-> fps, bitrate |-> bitrate]

\* The loop part of a step: r is the result of loop or ProcessingEffect, t the
\* picture shown at the run, handlerCleared whether the handler itself cleared the gate,
\* log the feed entry the handler left, stats the fps and bitrate it left. A run
\* of the loop that counted its frame publishes a reading if a second has passed
\* since the last one.
ApplyLoop(r, t, handlerCleared, log, stats) ==
    /\ \E reading \in {stats.fps} \cup (IF r.counted THEN FpsReadings ELSE {}) :
          /\ fps' = reading
          /\ bitrate' = IF reading = stats.fps THEN stats.bitrate ELSE Bitrate(reading)
    /\ processingRef' = r.send.processingRef
    /\ rafQueue' = r.rafQueue
    /\ animationFrameRef' = r.animationFrameRef
    /\ scene' = t
    /\ wire' = IF r.send.sent
               THEN [snapshot |-> Snapshot(t), afterDrop |-> dropped]
               ELSE NoFrame
    /\ dropped' = IF r.send.sent \/ handlerCleared THEN FALSE
                  ELSE r.send.blocked \/ dropped
    /\ sendsSinceClear' =
         LET base == IF handlerCleared THEN 0 ELSE sendsSinceClear
         IN  IF r.send.sent THEN Min(base + 1, 2)
             ELSE IF r.send.cleared THEN 0 ELSE base
    /\ logged' = IF r.send.log = "keep" THEN log ELSE r.send.log

\* It must be possible to schedule the next callback.
RafRoom(queue, aref) == FreshRafIds(cancelAnimationFrame(queue, aref), aref) # {}

\* ------------------------------------------------------------ dashboard
\* Numbers of the scoring code are kept as exact fractions n/d, d > 0, in
\* lowest terms; samples are whole numbers.
RECURSIVE Gcd(_, _)
Gcd(a, b) == IF b = 0 THEN a ELSE Gcd(b, a % b)
Abs(a) == IF a < 0 THEN -a ELSE a
Q(n, d) == LET g == Gcd(Abs(n), d) IN [n |-> n \div g, d |-> d \div g]
QInt(k) == Q(k, 1)
QAdd(a, b) == Q(a.n * b.d + b.n * a.d, a.d * b.d)
QSub(a, b) == Q(a.n * b.d - b.n * a.d, a.d * b.d)
QMul(a, b) == Q(a.n * b.n, a.d * b.d)
\* a / k for a whole k > 0
QDiv(a, k) == Q(a.n, a.d * k)
QLe(a, b) == a.n * b.d <= b.n * a.d
\* Math.min, Math.max
MathMin(a, b) == IF QLe(a, b) THEN a ELSE b
MathMax(a, b) == IF QLe(a, b) THEN b ELSE a
\* Faulty variant: truncation instead of rounding.
MathTrunc(a) == a.n \div a.d

\* Math.round: the nearest integer, a half rounds up (floor(x + 1/2)).
MathRound(a) == (2 * a.n + a.d) \div (2 * a.d)

\* Faulty variant: the first k elements instead of the last.
sliceHead(arr, k) == SubSeq(arr, 1, Min(k, Len(arr)))

\* Array.prototype.slice(-k): the last k elements, all when there are fewer.
slice(arr, k) == SubSeq(arr, Max(1, Len(arr) - k + 1), Len(arr))

\* arr.reduce((sum, d) => sum + d[field], 0)
RECURSIVE reduce(_, _)
reduce(arr, field) ==
    IF arr = <<>> THEN 0 ELSE reduce(SubSeq(arr, 1, Len(arr) - 1), field) + arr[Len(arr)][field]

\* const recent = data.slice(-10)
recent(d) == slice(d, 10)

\* The four sub-scores of getPerformanceScore for a window that is not empty.
fpsScore(d) ==
    LET avgFps == Q(reduce(recent(d), "fps"), Len(recent(d)))
    IN  QMul(MathMin(QDiv(avgFps, 30), QInt(1)), QInt(25))

latencyScore(d) ==
    LET avgLatency == Q(reduce(recent(d), "latency"), Len(recent(d)))
    IN  QMul(MathMax(QInt(0), QSub(QInt(1), QDiv(avgLatency, 100))), QInt(25))

cpuScore(d) ==
    LET avgCpu == Q(reduce(recent(d), "cpuUsage"), Len(recent(d)))
    IN  QMul(MathMax(QInt(0), QSub(QInt(1), QDiv(avgCpu, 100))), QInt(25))

stabilityScore == QInt(25)

getPerformanceScore(d) ==
    IF Len(d) = 0 THEN 0
    ELSE MathRound(QAdd(QAdd(QAdd(fpsScore(d), latencyScore(d)), cpuScore(d)),
                        stabilityScore))

\* Faulty variant: strict comparisons.
getPerformanceGradeStrict(sc) ==
    IF sc > 90 THEN "A+"
    ELSE IF sc > 80 THEN "A"
    ELSE IF sc > 70 THEN "B"
    ELSE IF sc > 60 THEN "C"
    ELSE "D"

getPerformanceGrade(sc) ==
    IF sc >= 90 THEN "A+"
    ELSE IF sc >= 80 THEN "A"
    ELSE IF sc >= 70 THEN "B"
    ELSE IF sc >= 60 THEN "C"
    ELSE "D"

\* data.slice(-20).map(d => (d.fps / 60) * 100): the bars of the FPS Trend chart.
FpsTrend(d) == [i \in 1..Len(slice(d, 20)) |-> QMul(Q(slice(d, 20)[i].fps, 60), QInt(100))]

\* Samples the dashboard is given.  fps comes from the frame counter, latency
\* is Date.now() minus the timestamp the service put in a processed frame
\* (1700-1704), which lies in the future when the clocks disagree; cpuUsage is
\* what the service reports.
Perfect == [fps |-> 30, latency |-> 0, cpuUsage |-> 0]
Saturated == [fps |-> 60, latency |-> 200, cpuUsage |-> 150]
Middling == [fps |-> 15, latency |-> 50, cpuUsage |-> 37]
HalfRate == [fps |-> 15, latency |-> 0, cpuUsage |-> 0]
Skewed == [fps |-> 30, latency |-> -100, cpuUsage |-> 0]
Samples == {Perfect, Saturated, Middling, HalfRate, Skewed}

\* The windows handed to the dashboard: a run of up to MaxSteady equal samples,
\* alone or followed by one more sample.
Steady(sample, n) == [i \in 1..n |-> sample]
Windows ==
    {Steady(sample, n) : sample \in Samples, n \in 0..MaxSteady}
      \cup {Append(Steady(sample, n), last) :
               sample \in Samples, n \in 1..MaxSteady, last \in Samples}

\* ------------------------------------------------------------ file sizes
\* A byte count is kept as its base-1024 digits, least significant first and
\* without leading zeros (0 is the empty sequence): Blob.size is a whole
\* number and may exceed the range of the model's integers.
Digit == 0..1023

\* The count a whole number of the model stands for.
RECURSIVE ToBytes(_)
ToBytes(n) == IF n = 0 THEN <<>> ELSE <<n % 1024>> \o ToBytes(n \div 1024)

\* Math.floor(Math.log(bytes) / Math.log(k)) for bytes > 0, k = 1024.
UnitIndex(b) == Len(b) - 1

\* floor(100 * x) for the fraction x that the digits 1..j of b make of the
\* digit above them.
RECURSIVE FloorCents(_, _)
FloorCents(b, j) == IF j = 0 THEN 0 ELSE (100 * b[j] + FloorCents(b, j - 1)) \div 1024

\* (bytes / Math.pow(k, i)).toFixed(2): the quotient in hundredths, rounded to
\* the nearest, a half up, as the two-decimal text.
toFixed2(b) ==
    LET top == Len(b)
        cents == 100 * b[top]
                   + (IF top = 1 THEN 0
                      ELSE (100 * b[top - 1] + 512 + FloorCents(b, top - 2)) \div 1024)
    IN  [whole |-> cents \div 100, decimals |-> <<(cents % 100) \div 10, cents % 10>>]

\* parseFloat(text) written back as a string by the + operator: trailing
\* zeros of the decimals are gone.
RECURSIVE StripZeros(_)
StripZeros(ds) ==
    IF ds # <<>> /\ ds[Len(ds)] = 0 THEN StripZeros(SubSeq(ds, 1, Len(ds) - 1)) ELSE ds

parseFloat(t) == [whole |-> t.whole, decimals |-> StripZeros(t.decimals)]

\* const sizes = ['Bytes', 'KB', 'MB', 'GB']
sizes == <<"Bytes", "KB", "MB", "GB">>

\* sizes[i]: undefined past the end of the array.
UnitAt(i) == IF i + 1 \in DOMAIN sizes THEN sizes[i + 1] ELSE "undefined"

formatFileSize(b) ==
    IF b = <<>> THEN [whole |-> 0, decimals |-> <<>>, unit |-> "Bytes"]
    ELSE LET n == parseFloat(toFixed2(b))
         IN  [whole |-> n.whole, decimals |-> n.decimals, unit |-> UnitAt(UnitIndex(b))]

\* formatFileSize has not been called.
NotFormatted == [whole |-> -1, decimals |-> <<>>, unit |-> "none"]

\* The byte counts formatted: 0, and for every length a choice of the two
\* leading digits over the same digit repeated below them.
ByteCounts ==
    {<<>>} \cup
    {[j \in 1..n |-> IF j = n THEN lead ELSE IF j = n - 1 THEN second ELSE rest] :
        n \in 1..(MaxPower + 1), lead \in {1, 2, 512, 1023},
        second \in {0, 1, 256, 512, 1023}, rest \in {0, 1023}}

\* --------------------------------------------------------------- recorder
\* Sizes of the segments a MediaRecorder delivers; an empty segment has size 0.
ChunkSizes == {0, 700}

\* Nothing was handed out by the step.
NoOutput == [kind |-> "none"]

\* new MediaRecorder(stream, ...) after start(1000); recordingTime is the value
\* the startRecording closure that built its onstop handler was rendered with.
\* segments and ticks are bookkeeping of the model: the non-empty segments the
\* recorder delivered and the ticks of the timer started with it.
NewRecorder(t) == [state |-> "recording", recordingTime |-> t, segments |-> 0, ticks |-> 0]

\* ondataavailable: an empty segment is not buffered.
ondataavailable(chunks, size) == IF size > 0 THEN Append(chunks, size) ELSE chunks

\* new Blob(parts).size
RECURSIVE BlobSize(_)
BlobSize(parts) == IF parts = <<>> THEN 0 ELSE Head(parts) + BlobSize(Tail(parts))

\* The entry onstop builds for recorder i out of the buffer as it is now.
newRecording(i, chunks) ==
    [id |-> i,
     duration |-> recorders[i].recordingTime,
     size |-> formatFileSize(ToBytes(BlobSize(chunks))),
     thumbnail |-> chunks]

\* An entry put behind the others.
appendEntry(e, prev) == Append(prev, e)

\* setRecordings(prev => [newRecording, ...prev])
prependEntry(e, prev) == <<e>> \o prev

\* The start button is offered wherever the stop button is not.
StartOfferedWhileRecording == propStreaming

\* The start button is enabled whether or not a session is streaming.
StartOfferedWithoutSession == ~isRecording

\* The start button is rendered while isRecording is false and is disabled
\* without the isStreaming prop.
StartOffered == ~isRecording /\ propStreaming

\* The stop button is rendered while isRecording is true.
StopOffered == isRecording

\* ------------------------------------------------------------- actions
\* The dashboard rendered with no data.
DashboardInit ==
    /\ data = <<>>
    /\ score = getPerformanceScore(data)
    /\ grade = getPerformanceGrade(score)
    /\ fpsTrend = FpsTrend(data)

\* The recorder part of the studio as mounted, under a parent that is not
\* streaming yet.
RecorderInit ==
    /\ propStreaming = FALSE
    /\ isRecording = FALSE
    /\ recordingTime = 0
    /\ recordings = <<>>
    /\ recorders = <<>>
    /\ mediaRecorderRef = 0
    /\ recordedChunksRef = <<>>
    /\ intervals = {}
    /\ recordingIntervalRef = 0
    /\ output = NoOutput

\* The studio before anything was recorded or formatted.
StudioInit ==
    /\ RecorderInit
    /\ bytes = <<>>
    /\ formatted = NotFormatted

\* Home as mounted.
HomeInit ==
    /\ uiVariant \in {"A", "B"}
    /\ isStreaming = FALSE
    /\ latency = "0"
    /\ isConnected = FALSE
    /\ isConnecting = FALSE
    /\ reconnectCount = 0
    /\ ws = <<>>
    /\ wsRef = 0
    /\ timers = [cs \in BOOLEAN |-> 0]
    /\ processingRef = FALSE
    /\ rafQueue = {}
    /\ animationFrameRef = 0
    /\ video = "none"
    /\ pendingStarts = 0
    /\ decodes = <<>>
    /\ processedFrames = 0
    /\ canvas = "blank"
    /\ scene = 0
    /\ wire = NoFrame
    /\ sendsSinceClear = 0
    /\ dropped = FALSE
    /\ logged = "none"
    /\ fps = 0
    /\ bitrate = 0
    /\ quality = "HD"

Init ==
    /\ DashboardInit
    /\ StudioInit
    /\ HomeInit

\* The start button is rendered while the session is not streaming; the first
\* copy disables it until the engine is connected (2231-2234), the second
\* while a connect is in progress (3549-3552).
StartEnabled ==
    /\ ~isStreaming
    /\ IF uiVariant = "A" THEN isConnected ELSE ~isConnecting

\* The connect button is rendered while neither flag is set (2276-2278).
ConnectEnabled == ~isConnected /\ ~isConnecting

\* The stop button replaces the start button while streaming (2243-2245).
StopEnabled == isStreaming

\* connectWebSocket, clicked: the callback of the current render.
ConnectClick ==
    /\ ConnectEnabled
    /\ CanConnect(ws, wsRef)
    /\ LET c == connectWebSocket(isStreaming, ws, wsRef, isConnecting)
       IN  /\ ws' = c.ws
           /\ wsRef' = c.wsRef
           /\ isConnecting' = c.isConnecting
           /\ logged' = IF c.created THEN "info" ELSE "none"
    /\ wire' = NoFrame
    /\ UNCHANGED <<dashboard, studio, fps, bitrate, quality,
                   uiVariant, isStreaming, latency, isConnected, reconnectCount,
                   timers, processingRef, rafQueue, animationFrameRef, video,
                   pendingStarts, decodes, processedFrames, canvas, scene,
                   sendsSinceClear, dropped>>

\* ws.onopen of transport i.
WsOpen(i) ==
    /\ i \in 1..Len(ws)
    /\ ws[i].readyState = "CONNECTING"
    /\ RafRoom(rafQueue, animationFrameRef)
    /\ ws' = [ws EXCEPT ![i].readyState = "OPEN"]
    /\ isConnected' = TRUE
    /\ isConnecting' = FALSE
    /\ reconnectCount' = 0
    /\ \E o \in TryOutcomes(isStreaming, ~isConnected, ws', wsRef, video, processingRef) :
         ApplyLoop(ProcessingEffect(~isConnected, isStreaming, TRUE, ws', wsRef, video,
                                    processingRef, rafQueue, animationFrameRef, o),
                   scene, FALSE, "info", Stats)
    /\ UNCHANGED <<dashboard, studio, quality,
                   uiVariant, isStreaming, latency, wsRef, timers, video,
                   pendingStarts, decodes, processedFrames, canvas>>

\* The reconnect decision of ws.onclose: the isStreaming its closure holds.
ShouldReconnect(w) == w.isStreaming

\* ws.onclose of transport i (after ws.onerror when the connection failed:
\* onerror clears the same two flags).  The transport is lost, or the close
\* that stopCamera asked for completes.
WsClose(i) ==
    /\ i \in 1..Len(ws)
    /\ ws[i].readyState \in {"CONNECTING", "OPEN", "CLOSING"}
    /\ ShouldReconnect(ws[i]) => timers[ws[i].isStreaming] < MaxTimers
    /\ ws' = Collect([ws EXCEPT ![i].readyState = "CLOSED"])
    /\ wsRef' = Len(ws')
    /\ isConnected' = FALSE
    /\ isConnecting' = FALSE
    /\ timers' = IF ShouldReconnect(ws[i])
                 THEN [timers EXCEPT ![ws[i].isStreaming] = @ + 1]
                 ELSE timers
    /\ ApplyLoop(ProcessingEffect(isConnected, isStreaming, FALSE, ws', wsRef', video,
                                  processingRef, rafQueue, animationFrameRef, "ok"),
                   scene, FALSE, "info", Stats)
    /\ UNCHANGED <<dashboard, studio, quality,
                   uiVariant, isStreaming, latency, reconnectCount, video,
                   pendingStarts, decodes, processedFrames, canvas>>

\* The reconnect timer armed by a transport whose closure held cs fires.
TimerFire(cs) ==
    /\ timers[cs] > 0
    /\ reconnectCount < MaxReconnect
    /\ CanConnect(ws, wsRef)
    /\ timers' = [timers EXCEPT ![cs] = @ - 1]
    /\ reconnectCount' = reconnectCount + 1
    /\ LET c == connectWebSocket(cs, ws, wsRef, isConnecting)
       IN  /\ ws' = c.ws
           /\ wsRef' = c.wsRef
           /\ isConnecting' = c.isConnecting
           /\ logged' = IF c.created THEN "info" ELSE "none"
    /\ wire' = NoFrame
    /\ UNCHANGED <<dashboard, studio, fps, bitrate, quality,
                   uiVariant, isStreaming, latency, isConnected, processingRef,
                   rafQueue, animationFrameRef, video, pendingStarts, decodes,
                   processedFrames, canvas, scene, sendsSinceClear, dropped>>

\* startCamera up to its first await (getUserMedia).
StartClick ==
    /\ StartEnabled
    /\ pendingStarts < MaxStarts
    /\ pendingStarts' = pendingStarts + 1
    /\ logged' = "info"
    /\ wire' = NoFrame
    /\ UNCHANGED <<dashboard, studio, fps, bitrate, quality,
                   uiVariant, isStreaming, latency, isConnected, isConnecting,
                   reconnectCount, ws, wsRef, timers, processingRef, rafQueue,
                   animationFrameRef, video, decodes, processedFrames, canvas, scene,
                   sendsSinceClear, dropped>>

\* The isStreaming that the connectWebSocket called by startCamera holds: the
\* start button exists only in renders whose isStreaming is false.
StartClosureStreaming == FALSE

\* startCamera after getUserMedia and play() resolved.
StartResume ==
    /\ pendingStarts > 0
    /\ CanConnect(ws, wsRef)
    /\ RafRoom(rafQueue, animationFrameRef)
    /\ pendingStarts' = pendingStarts - 1
    /\ video' \in {"loading", "ready"}
    /\ isStreaming' = TRUE
    /\ canvas' = "blank"
    /\ processedFrames' = 0
    /\ LET c == connectWebSocket(StartClosureStreaming, ws, wsRef, isConnecting)
       IN  /\ ws' = c.ws
           /\ wsRef' = c.wsRef
           /\ isConnecting' = c.isConnecting
    /\ \E o \in TryOutcomes(~isStreaming, isConnected, ws', wsRef', video', processingRef) :
         ApplyLoop(ProcessingEffect(~isStreaming, TRUE, isConnected, ws', wsRef', video',
                                    processingRef, rafQueue, animationFrameRef, o),
                   scene, FALSE, "info", Stats)
    /\ UNCHANGED <<dashboard, studio, quality,
                   uiVariant, latency, isConnected, reconnectCount, timers, decodes>>

\* getUserMedia or play() rejects: the catch of startCamera.
StartFail ==
    /\ pendingStarts > 0
    /\ pendingStarts' = pendingStarts - 1
    /\ logged' = "camera_error"
    /\ wire' = NoFrame
    /\ UNCHANGED <<dashboard, studio, fps, bitrate, quality,
                   uiVariant, isStreaming, latency, isConnected, isConnecting,
                   reconnectCount, ws, wsRef, timers, processingRef, rafQueue,
                   animationFrameRef, video, decodes, processedFrames, canvas, scene,
                   sendsSinceClear, dropped>>

\* WebSocket.close(): a transport that is connecting or open starts closing.
close(w) == IF w.readyState \in {"CONNECTING", "OPEN"}
            THEN [w EXCEPT !.readyState = "CLOSING"] ELSE w

\* Faulty variant: the quality the page was mounted with is restored.
stoppedStateDefaultQuality(q) ==
    [isStreaming |-> FALSE, fps |-> 0, latency |-> "0", quality |-> "HD", bitrate |-> 0]

\* The stream state stopCamera sets; q is the quality of the render it was
\* created in.
stoppedState(q) ==
    [isStreaming |-> FALSE, fps |-> 0, latency |-> "0", quality |-> q, bitrate |-> 0]

\* The stop button is clicked: stopCamera, then the effect's cleanup.
StopClick ==
    /\ StopEnabled
    /\ video' = "none"
    /\ ws' = IF wsRef # 0 THEN [ws EXCEPT ![wsRef] = close(@)] ELSE ws
    /\ canvas' = "blank"
    /\ isStreaming' = stoppedState(quality).isStreaming
    /\ latency' = stoppedState(quality).latency
    /\ quality' = stoppedState(quality).quality
    /\ processedFrames' = 0
    /\ ApplyLoop(ProcessingEffect(TRUE, FALSE, isConnected, ws', wsRef, video', FALSE,
                                  cancelAnimationFrame(rafQueue, animationFrameRef),
                                  animationFrameRef, "ok"),
                   scene, TRUE, "info",
                   [fps |-> stoppedState(quality).fps,
                    bitrate |-> stoppedState(quality).bitrate])
    /\ UNCHANGED <<dashboard, studio, uiVariant, isConnected, isConnecting, reconnectCount,
                   wsRef, timers, pendingStarts, decodes>>

\* What the service may put on the wire: a payload JSON.parse rejects, and the
\* four message types; a processed frame carries image data or none, and the
\* timestamp of the frame it answers or none (0).
Payloads == {"unparsable", "processed_frame", "processed_frame_nodata",
             "background_changed", "error", "performance_update"}
\* data.timestamp is set, or missing; only a processed frame is read for it.
Timestamps == {TRUE, FALSE}
TimestampsOf(payload) == IF payload = "processed_frame" THEN Timestamps ELSE {FALSE}

\* Faulty variant: a payload that does not parse is taken for a message.
ParsesAnything(payload) == TRUE

\* JSON.parse(event.data) succeeds.
Parses(payload) == payload # "unparsable"

\* ws.onmessage of transport i, with handleWebSocketMessage up to the point
\* where the image load is started; at most cap images are loading at once.
handleWebSocketMessage(i, payload, ts, cap) ==
    /\ i \in 1..Len(ws)
    /\ ws[i].readyState \in {"OPEN", "CLOSING"}
    /\ IF ~Parses(payload)
       THEN /\ logged' = "parse_error"
            /\ UNCHANGED decodes
       ELSE CASE payload = "processed_frame" ->
                   /\ Len(decodes) < cap
                   /\ decodes' = Append(decodes, [timestamp |-> ts])
                   /\ logged' = "none"
              [] payload = "background_changed" ->
                   /\ logged' = "info"
                   /\ UNCHANGED decodes
              [] payload = "error" ->
                   /\ logged' = "engine_error"
                   /\ UNCHANGED decodes
              [] OTHER ->
                   /\ logged' = "none"
                   /\ UNCHANGED decodes
    /\ wire' = NoFrame
    /\ UNCHANGED <<dashboard, studio, fps, bitrate, quality,
                   uiVariant, isStreaming, latency, isConnected, isConnecting,
                   reconnectCount, ws, wsRef, timers, processingRef, rafQueue,
                   animationFrameRef, video, pendingStarts, processedFrames, canvas,
                   scene, sendsSinceClear, dropped>>

\* A message of the engine while the earlier image has been dealt with.
WsMessage(i, payload, ts) == handleWebSocketMessage(i, payload, ts, MaxDecodes)

\* A message of the engine that may follow another at once.
WsBurst(i, payload, ts) == handleWebSocketMessage(i, payload, ts, MaxBurst)

RemoveAt(seq, k) == SubSeq(seq, 1, k - 1) \o SubSeq(seq, k + 1, Len(seq))

\* img.onload of the k-th pending image.
ImgOnload(k) ==
    /\ k \in 1..Len(decodes)
    /\ processedFrames < MaxProcessed
    /\ decodes' = RemoveAt(decodes, k)
    /\ canvas' = "frame"
    /\ processingRef' = FALSE
    /\ sendsSinceClear' = 0
    /\ processedFrames' = processedFrames + 1
    /\ latency' = IF decodes[k].timestamp THEN "measured" ELSE latency
    /\ wire' = NoFrame
    /\ logged' = "none"
    /\ UNCHANGED <<dashboard, studio, fps, bitrate, quality,
                   uiVariant, isStreaming, isConnected, isConnecting, reconnectCount,
                   ws, wsRef, timers, rafQueue, animationFrameRef, video,
                   pendingStarts, scene, dropped>>

\* The image data does not decode: onload never fires.
DecodeFail(k) ==
    /\ k \in 1..Len(decodes)
    /\ decodes' = RemoveAt(decodes, k)
    /\ wire' = NoFrame
    /\ logged' = "none"
    /\ UNCHANGED <<dashboard, studio, fps, bitrate, quality,
                   uiVariant, isStreaming, latency, isConnected, isConnecting,
                   reconnectCount, ws, wsRef, timers, processingRef, rafQueue,
                   animationFrameRef, video, pendingStarts, processedFrames, canvas,
                   scene, sendsSinceClear, dropped>>

\* The camera delivers enough data: video.readyState becomes 4.
VideoReady ==
    /\ video = "loading"
    /\ video' = "ready"
    /\ wire' = NoFrame
    /\ logged' = "none"
    /\ UNCHANGED <<dashboard, studio, fps, bitrate, quality,
                   uiVariant, isStreaming, latency, isConnected, isConnecting,
                   reconnectCount, ws, wsRef, timers, processingRef, rafQueue,
                   animationFrameRef, pendingStarts, decodes, processedFrames, canvas,
                   scene, sendsSinceClear, dropped>>

\* A background setting changes: sendFrameToBackend and startProcessingLoop are
\* new callbacks, so the effect runs again.
SettingsChange ==
    /\ RafRoom(rafQueue, animationFrameRef)
    /\ \E o \in TryOutcomes(isStreaming, isConnected, ws, wsRef, video, processingRef) :
         ApplyLoop(ProcessingEffect(TRUE, isStreaming, isConnected, ws, wsRef, video,
                                    processingRef, rafQueue, animationFrameRef, o),
                   scene, FALSE, "none", Stats)
    /\ UNCHANGED <<dashboard, studio, quality,
                   uiVariant, isStreaming, latency, isConnected, isConnecting,
                   reconnectCount, ws, wsRef, timers, video, pendingStarts, decodes,
                   processedFrames, canvas>>

\* The stream qualities of the select that the free tier may choose.
Qualities == {"HD", "SD"}

\* Another stream quality is selected; no callback of the loop depends on it.
QualityChange ==
    /\ \E q \in Qualities \ {quality} : quality' = q
    /\ logged' = "none"
    /\ wire' = NoFrame
    /\ UNCHANGED <<dashboard, studio, fps, bitrate, uiVariant, isStreaming, latency,
                   isConnected, isConnecting, reconnectCount, ws, wsRef, timers,
                   processingRef, rafQueue, animationFrameRef, video, pendingStarts,
                   decodes, processedFrames, canvas, scene, sendsSinceClear, dropped>>

\* The browser runs the scheduled callback cb at the next display refresh.
RafFire(cb) ==
    /\ cb \in rafQueue
    /\ \E o \in TryOutcomes(cb.isStreaming, cb.isConnected, ws, wsRef, video, processingRef) :
         ApplyLoop(loop(cb, ws, wsRef, video, processingRef, rafQueue \ {cb},
                        animationFrameRef, o),
                   1 - scene, FALSE, "none", Stats)
    /\ UNCHANGED <<dashboard, studio, quality,
                   uiVariant, isStreaming, latency, isConnected, isConnecting,
                   reconnectCount, ws, wsRef, timers, video, pendingStarts, decodes,
                   processedFrames, canvas>>

RafCallbacks == [id : RafIds, isStreaming : BOOLEAN, isConnected : BOOLEAN]

Next ==
    \/ ConnectClick
    \/ \E i \in Slots : WsOpen(i)
    \/ \E i \in Slots : WsClose(i)
    \/ \E cs \in BOOLEAN : TimerFire(cs)
    \/ StartClick
    \/ StartResume
    \/ StartFail
    \/ StopClick
    \/ \E i \in Slots, payload \in Payloads :
          \E ts \in TimestampsOf(payload) : WsMessage(i, payload, ts)
    \/ \E k \in 1..MaxDecodes : ImgOnload(k)
    \/ \E k \in 1..MaxDecodes : DecodeFail(k)
    \/ VideoReady
    \/ SettingsChange
    \/ QualityChange
    \/ \E cb \in RafCallbacks : RafFire(cb)

Spec == Init /\ [][Next]_vars

\* The session as the second copy of Home runs it when the manual connect
\* button is never used: every transport is opened by startCamera.
LoopInit == Init /\ uiVariant = "B"

LoopNext ==
    \/ \E i \in Slots : WsOpen(i)
    \/ \E i \in Slots : WsClose(i)
    \/ StartClick
    \/ StartResume
    \/ StartFail
    \/ StopClick
    \/ \E i \in Slots, payload \in Payloads :
          \E ts \in TimestampsOf(payload) : WsMessage(i, payload, ts)
    \/ \E k \in 1..MaxDecodes : ImgOnload(k)
    \/ \E k \in 1..MaxDecodes : DecodeFail(k)
    \/ VideoReady
    \/ SettingsChange
    \/ \E cb \in RafCallbacks : RafFire(cb)

LoopSpec == LoopInit /\ [][LoopNext]_vars

\* The first copy once SD was selected and the engine is connected (the
\* connect button, then onopen), with no further connect.
StopInit ==
    /\ DashboardInit
    /\ StudioInit
    /\ uiVariant = "A"
    /\ isStreaming = FALSE
    /\ latency = "0"
    /\ isConnected = TRUE
    /\ isConnecting = FALSE
    /\ reconnectCount = 0
    /\ ws = <<[readyState |-> "OPEN", isStreaming |-> FALSE]>>
    /\ wsRef = 1
    /\ timers = [cs \in BOOLEAN |-> 0]
    /\ processingRef = FALSE
    /\ rafQueue = {}
    /\ animationFrameRef = 0
    /\ video = "none"
    /\ pendingStarts = 0
    /\ decodes = <<>>
    /\ processedFrames = 0
    /\ canvas = "blank"
    /\ scene = 0
    /\ wire = NoFrame
    /\ sendsSinceClear = 0
    /\ dropped = FALSE
    /\ logged = "info"
    /\ fps = 0
    /\ bitrate = 0
    /\ quality = "SD"

\* The session of LoopSpec with an engine that may send a second processed
\* frame before the image of the first has loaded.
BurstNext ==
    \/ \E i \in Slots : WsOpen(i)
    \/ \E i \in Slots : WsClose(i)
    \/ StartClick
    \/ StartResume
    \/ StartFail
    \/ StopClick
    \/ \E i \in Slots, payload \in Payloads :
          \E ts \in TimestampsOf(payload) : WsBurst(i, payload, ts)
    \/ \E k \in 1..MaxBurst : ImgOnload(k)
    \/ \E k \in 1..MaxBurst : DecodeFail(k)
    \/ VideoReady
    \/ SettingsChange
    \/ \E cb \in RafCallbacks : RafFire(cb)

BurstSpec == LoopInit /\ [][BurstNext]_vars

StopNext == LoopNext

StopSpec == StopInit /\ [][StopNext]_vars

\* The browser completes the load of a pending image that decodes.
Decoded == \E k \in 1..MaxDecodes : ImgOnload(k)

\* The browser runs a scheduled callback at the next display refresh.
Refreshed == \E cb \in RafCallbacks : RafFire(cb)

\* The second copy under a browser that completes every image load it can and
\* keeps refreshing the display.
LiveSpec == LoopSpec /\ WF_vars(Decoded) /\ WF_vars(Refreshed)

\* A display refresh runs a cycle that transmits a frame.
Sending == \E cb \in RafCallbacks : RafFire(cb) /\ wire' # NoFrame

\* The second copy under a browser that keeps refreshing the display and in
\* which encoding and sending a frame succeed whenever a cycle keeps trying.
ProgressSpec == LoopSpec /\ WF_vars(Refreshed) /\ WF_vars(Sending)

\* The parent renders the dashboard with a new data prop; the component body
\* computes the score and the grade (49-50).
SetData(w) ==
    /\ data' = w
    /\ score' = getPerformanceScore(data')
    /\ grade' = getPerformanceGrade(score')
    /\ fpsTrend' = FpsTrend(data')
    /\ UNCHANGED <<studio, home>>

\* The dashboard on its own: the stream does not move.
ScoreInit == Init /\ uiVariant = "A"

ScoreNext == \E w \in Windows : SetData(w)

ScoreSpec == ScoreInit /\ [][ScoreNext]_vars

\* formatFileSize is called with the byte count.
Format ==
    /\ formatted = NotFormatted
    /\ formatted' = formatFileSize(bytes)
    /\ UNCHANGED <<bytes, recorder, dashboard, home>>

\* formatFileSize on its own, for each byte count.
FormatInit ==
    /\ DashboardInit
    /\ RecorderInit
    /\ HomeInit /\ uiVariant = "A"
    /\ bytes \in ByteCounts
    /\ formatted = NotFormatted

FormatNext == Format

FormatSpec == FormatInit /\ [][FormatNext]_vars

\* The start button is clicked: startRecording. Without a canvas it returns;
\* a MediaRecorder that cannot be built throws into the catch, and so does one
\* whose start(1000) throws, after the buffer was emptied and the ref set; such
\* a recorder never records and has no stop event.
StartRecording(o) ==
    /\ StartOffered
    /\ \/ /\ o = "nocanvas"
          /\ output' = NoOutput
          /\ UNCHANGED <<isRecording, recordingTime, recorders, mediaRecorderRef,
                         recordedChunksRef, intervals, recordingIntervalRef>>
       \/ /\ o = "unsupported"
          /\ output' = [kind |-> "error"]
          /\ UNCHANGED <<isRecording, recordingTime, recorders, mediaRecorderRef,
                         recordedChunksRef, intervals, recordingIntervalRef>>
       \/ /\ o = "startthrows"
          /\ Len(recorders) < MaxRecorders
          /\ recordedChunksRef' = <<>>
          /\ recorders' = Append(recorders, [NewRecorder(recordingTime) EXCEPT !.state = "stopped"])
          /\ mediaRecorderRef' = Len(recorders) + 1
          /\ output' = [kind |-> "error"]
          /\ UNCHANGED <<isRecording, recordingTime, intervals, recordingIntervalRef>>
       \/ /\ o = "ok"
          /\ Len(recorders) < MaxRecorders
          /\ recordedChunksRef' = <<>>
          /\ recorders' = Append(recorders, NewRecorder(recordingTime))
          /\ mediaRecorderRef' = Len(recorders) + 1
          /\ isRecording' = TRUE
          /\ recordingTime' = 0
          /\ intervals' = intervals \cup {Len(recorders) + 1}
          /\ recordingIntervalRef' = Len(recorders) + 1
          /\ output' = NoOutput
    /\ UNCHANGED <<propStreaming, recordings, bytes, formatted, dashboard, home>>

\* MediaRecorder.stop(): the recorder is inactive at once; its last segment and
\* its stop event follow in a task of their own.
stop(r) == IF r.state = "recording" THEN [r EXCEPT !.state = "inactive"] ELSE r

\* The stop button is clicked: stopRecording.
StopRecording ==
    /\ StopOffered
    /\ IF mediaRecorderRef # 0 /\ isRecording
       THEN /\ recorders' = [recorders EXCEPT ![mediaRecorderRef] = stop(@)]
            /\ isRecording' = FALSE
            /\ intervals' = intervals \ {recordingIntervalRef}
       ELSE UNCHANGED <<recorders, isRecording, intervals>>
    /\ output' = NoOutput
    /\ UNCHANGED <<propStreaming, recordingTime, recordings, mediaRecorderRef,
                   recordedChunksRef, recordingIntervalRef, bytes, formatted,
                   dashboard, home>>

\* A second of recording has passed for recorder i: dataavailable.
DataAvailable(i, size) ==
    /\ recorders[i].state = "recording"
    /\ Len(recordedChunksRef) < MaxChunks
    /\ recordedChunksRef' = ondataavailable(recordedChunksRef, size)
    /\ recorders' = [recorders EXCEPT ![i].segments = IF size > 0 THEN @ + 1 ELSE @]
    /\ output' = NoOutput
    /\ UNCHANGED <<propStreaming, isRecording, recordingTime, recordings,
                   mediaRecorderRef, intervals, recordingIntervalRef, bytes, formatted,
                   dashboard, home>>

\* The task a stop() queued runs for recorder i, the one stopped first: its
\* last segment is delivered, then onstop builds the entry.
RecorderStopped(i, size) ==
    /\ recorders[i].state = "inactive"
    /\ \A j \in 1..(i - 1) : recorders[j].state # "inactive"
    /\ recordedChunksRef' = ondataavailable(recordedChunksRef, size)
    /\ recorders' = [recorders EXCEPT ![i].state = "stopped",
                                      ![i].segments = IF size > 0 THEN @ + 1 ELSE @]
    /\ recordings' = prependEntry(newRecording(i, recordedChunksRef'), recordings)
    /\ output' = NoOutput
    /\ UNCHANGED <<propStreaming, isRecording, recordingTime, mediaRecorderRef,
                   intervals, recordingIntervalRef, bytes, formatted, dashboard, home>>

\* The timer started with recorder id fires: setRecordingTime(prev => prev + 1).
Tick(id) ==
    /\ id \in intervals
    /\ recordingTime < MaxTicks
    /\ recordingTime' = recordingTime + 1
    /\ recorders' = [recorders EXCEPT ![id].ticks = @ + 1]
    /\ output' = NoOutput
    /\ UNCHANGED <<propStreaming, isRecording, recordings, mediaRecorderRef,
                   recordedChunksRef, intervals, recordingIntervalRef, bytes, formatted,
                   dashboard, home>>

\* The download button of entry k: a link to its blob is clicked.
downloadRecording(k) ==
    /\ k \in DOMAIN recordings
    /\ output' = [kind |-> "download", href |-> recordings[k].thumbnail,
                  download |-> recordings[k].id]
    /\ UNCHANGED <<propStreaming, isRecording, recordingTime, recordings, recorders,
                   mediaRecorderRef, recordedChunksRef, intervals, recordingIntervalRef,
                   bytes, formatted, dashboard, home>>

\* The share button of entry k: with navigator.share the first segment of the
\* buffer is shared under the entry's name, and a rejection is caught and
\* written to the console; without it the page address is copied.
shareRecording(k, canShare, rejected) ==
    /\ k \in DOMAIN recordings
    /\ output' = IF ~canShare THEN [kind |-> "clipboard"]
                 ELSE IF rejected THEN [kind |-> "shareerror"]
                 ELSE [kind |-> "share", title |-> recordings[k].id,
                       file |-> IF recordedChunksRef = <<>> THEN <<>>
                                ELSE <<recordedChunksRef[1]>>]
    /\ UNCHANGED <<propStreaming, isRecording, recordingTime, recordings, recorders,
                   mediaRecorderRef, recordedChunksRef, intervals, recordingIntervalRef,
                   bytes, formatted, dashboard, home>>

\* The parent renders the studio with another isStreaming.
SetStreamingProp ==
    /\ propStreaming' = ~propStreaming
    /\ output' = NoOutput
    /\ UNCHANGED <<isRecording, recordingTime, recordings, recorders, mediaRecorderRef,
                   recordedChunksRef, intervals, recordingIntervalRef, bytes, formatted,
                   dashboard, home>>

\* The studio on its own.
RecordInit ==
    /\ DashboardInit
    /\ HomeInit /\ uiVariant = "A"
    /\ StudioInit

RecordNext ==
    \/ \E o \in {"nocanvas", "unsupported", "startthrows", "ok"} : StartRecording(o)
    \/ StopRecording
    \/ \E i \in DOMAIN recorders, size \in ChunkSizes : DataAvailable(i, size)
    \/ \E i \in DOMAIN recorders, size \in ChunkSizes : RecorderStopped(i, size)
    \/ \E id \in DOMAIN recorders : Tick(id)
    \/ \E k \in DOMAIN recordings : downloadRecording(k)
    \/ \E k \in DOMAIN recordings, canShare \in BOOLEAN, rejected \in BOOLEAN :
          shareRecording(k, canShare, rejected)
    \/ SetStreamingProp

RecordSpec == RecordInit /\ [][RecordNext]_vars

TypeOK ==
    /\ uiVariant \in {"A", "B"}
    /\ isStreaming \in BOOLEAN /\ isConnected \in BOOLEAN /\ isConnecting \in BOOLEAN
    /\ reconnectCount \in 0..MaxReconnect
    /\ wsRef \in 0..MaxWs /\ Len(ws) <= MaxWs /\ wsRef \in {0, Len(ws)}
    /\ processingRef \in BOOLEAN
    /\ rafQueue \subseteq RafCallbacks
    /\ animationFrameRef \in {0} \cup RafIds
    /\ video \in {"none", "loading", "ready"}
    /\ pendingStarts \in 0..MaxStarts
    /\ Len(decodes) <= MaxBurst
    /\ processedFrames \in 0..MaxProcessed
    /\ scene \in Scenes
    /\ latency \in {"0", "measured"}
    /\ sendsSinceClear \in 0..2
    /\ dropped \in BOOLEAN
    /\ logged \in LogKinds
    /\ data \in Windows
    /\ grade \in {"A+", "A", "B", "C", "D"}
    /\ fps \in {0} \cup FpsReadings
    /\ bitrate = Bitrate(fps)
    /\ quality \in Qualities
    /\ \A j \in DOMAIN bytes : bytes[j] \in Digit
    /\ propStreaming \in BOOLEAN /\ isRecording \in BOOLEAN
    /\ recordingTime \in 0..MaxTicks
    /\ Len(recorders) <= MaxRecorders
    /\ mediaRecorderRef \in {0, Len(recorders)}
    /\ recordingIntervalRef \in 0..Len(recorders)
    /\ intervals \subseteq DOMAIN recorders
    /\ Len(recordings) <= Len(recorders)
    /\ \A j \in DOMAIN recordedChunksRef : recordedChunksRef[j] \in ChunkSizes \ {0}

\* ------------------------------------------------------------ properties
\* Transports that are open or connecting.
Active == {i \in 1..Len(ws) : ws[i].readyState \in {"CONNECTING", "OPEN"}}

\* Reconnect timers pending.
TimersPending(t) == t[TRUE] + t[FALSE]

\* The session is stopped and no start is under way.
Stopped == ~isStreaming /\ pendingStarts = 0

\* C1 (single in-flight): a step transmits a frame only if the gate was clear
\* when it began and leaves the gate set, and the number of frames transmitted
\* since the gate was last cleared (by a processed frame, a failed encode or
\* send, or stop) never exceeds 1.
SingleInFlight ==
    [][ /\ wire' # NoFrame => ~processingRef /\ processingRef'
        /\ sendsSinceClear' <= 1 ]_vars

\* A frame is in flight and a later cycle has been refused by the gate.
SingleInFlightWitness ==
    /\ isStreaming /\ isConnected
    /\ processingRef /\ sendsSinceClear = 1
    /\ dropped

\* C2 (frames only while live): a step that transmits a frame ends with the
\* streaming flag set, the connected flag set and the session's transport
\* open; a step that ends without an open transport has transmitted nothing,
\* has not set the gate and has reported no frame error.
SendsOnlyWhenLive ==
    [][ /\ wire' # NoFrame =>
              isStreaming' /\ isConnected' /\ readyState(ws', wsRef') = "OPEN"
        /\ readyState(ws', wsRef') # "OPEN" =>
              /\ wire' = NoFrame
              /\ processingRef' => processingRef
              /\ logged' # "frame_error" ]_vars

\* The loop has run with both flags set and the surface ready while the
\* session's transport was still connecting: nothing went out, the gate is clear.
SendsOnlyWhenLiveWitness ==
    /\ isStreaming /\ isConnected
    /\ readyState(ws, wsRef) = "CONNECTING"
    /\ video = "ready"
    /\ rafQueue # {}
    /\ ~processingRef /\ wire = NoFrame

\* C3 (no reconnect after stop): while the session is stopped no step arms a
\* reconnect timer, and a reconnect timer that fires creates no transport.
NoReconnectAfterStop ==
    [][ Stopped =>
          /\ TimersPending(timers') <= TimersPending(timers)
          /\ TimersPending(timers') < TimersPending(timers) => ws' = ws ]_vars

\* C4 (reconnect on loss): when the session's transport fails or closes while
\* it was connecting or open (so not through stop) and the streaming flag is
\* set, exactly one reconnect timer is armed; a timer that fires adds exactly
\* one to the reconnect counter.
ReconnectOnLoss ==
    [][ /\ \A i \in Slots :
              /\ isStreaming
              /\ i = wsRef
              /\ ws[i].readyState \in {"CONNECTING", "OPEN"}
              /\ WsClose(i)
              => TimersPending(timers') = TimersPending(timers) + 1
        /\ \A cs \in BOOLEAN :
              TimerFire(cs) => reconnectCount' = reconnectCount + 1 ]_vars

\* C5 (one transport): at most one transport is open or connecting.
OneTransport == Cardinality(Active) <= 1

\* C6 (unparsable payload): a step that hands a payload JSON.parse rejects to
\* ws.onmessage reports a parse error to the activity feed, and leaves the
\* streaming flag, the connected flag, the gate, the transports and the
\* pending images as they were; nothing is transmitted.
UnparsableIsDropped ==
    [][ (\E i \in Slots : WsMessage(i, "unparsable", FALSE)) =>
          /\ logged' = "parse_error"
          /\ wire' = NoFrame
          /\ UNCHANGED <<isStreaming, isConnected, isConnecting, processingRef, ws,
                         wsRef, decodes, rafQueue>> ]_vars

\* An unparsable payload has just been reported while a frame is in flight.
UnparsableIsDroppedWitness ==
    /\ logged = "parse_error"
    /\ isStreaming /\ isConnected
    /\ processingRef

\* C7 (latest frame wins): a step that begins with the gate set transmits
\* nothing, and a frame that is transmitted carries the picture the camera
\* shows in the cycle that sends it.
LatestFrameWins ==
    [][ /\ processingRef => wire' = NoFrame
        /\ wire' # NoFrame => wire'.snapshot = scene' ]_vars

\* A frame has just been sent after cycles were refused by the gate and a
\* processed frame cleared it.
LatestFrameWinsWitness ==
    /\ wire # NoFrame
    /\ wire.afterDrop
    /\ wire.snapshot = scene
    /\ processedFrames > 0

\* The last ten entries of the data prop, by index.
WindowIdx == {i \in 1..Len(data) : i > Len(data) - 10}

RECURSIVE SumOver(_, _)
SumOver(idx, field) ==
    IF idx = {} THEN 0
    ELSE LET i == CHOOSE j \in idx : TRUE
         IN  data[i][field] + SumOver(idx \ {i}, field)

\* 12 n times min(avgFps/30, 1)*25 + max(0, 1 - avgLatency/100)*25
\*            + max(0, 1 - avgCpu/100)*25 + 25, for the n samples of the window.
TwelveNTimesSum ==
    LET n == Cardinality(WindowIdx)
    IN  Min(10 * SumOver(WindowIdx, "fps"), 300 * n)
          + Max(0, 300 * n - 3 * SumOver(WindowIdx, "latency"))
          + Max(0, 300 * n - 3 * SumOver(WindowIdx, "cpuUsage"))
          + 300 * n

\* C8 (score): for a window that is not empty the score is the integer nearest
\* to the sum of the four terms, averages taken over the last ten samples (a
\* half rounds up); ten samples that average fps 30, latency 0 and cpu 0 score
\* 100 and grade A+.
ScoreIsRoundedSum ==
    /\ data # <<>> =>
         LET n == Cardinality(WindowIdx)
         IN  /\ 12 * n * (2 * score - 1) <= 2 * TwelveNTimesSum
             /\ 2 * TwelveNTimesSum < 12 * n * (2 * score + 1)
    /\ ( /\ Len(data) = 10
         /\ SumOver(WindowIdx, "fps") = 300
         /\ SumOver(WindowIdx, "latency") = 0
         /\ SumOver(WindowIdx, "cpuUsage") = 0 )
       => score = 100 /\ grade = "A+"

\* The dashboard shows ten perfect samples.
ScoreIsRoundedSumWitness ==
    /\ Len(data) = 10
    /\ \A i \in 1..10 : data[i] = Perfect
    /\ score = 100
    /\ grade = "A+"

\* x lies in [0, 25].
InQuarter(x) == QLe(QInt(0), x) /\ QLe(x, QInt(25))

\* C9 (bounded score): for a window that is not empty each of the four
\* sub-scores lies in [0, 25], and the score lies in [0, 100].
ScoreBounded ==
    /\ data # <<>> =>
         /\ InQuarter(fpsScore(data))
         /\ InQuarter(latencyScore(data))
         /\ InQuarter(cpuScore(data))
         /\ InQuarter(stabilityScore)
    /\ score \in 0..100

Rank(g) == CASE g = "A+" -> 4 [] g = "A" -> 3 [] g = "B" -> 2 [] g = "C" -> 1 [] OTHER -> 0

\* C10 (grade): the grade shown is the one the thresholds 90, 80, 70 and 60
\* give for the score shown, whatever was shown before, and a higher score
\* never has a lower grade.
GradeFollowsScore ==
    /\ score >= 90 => grade = "A+"
    /\ score \in 80..89 => grade = "A"
    /\ score \in 70..79 => grade = "B"
    /\ score \in 60..69 => grade = "C"
    /\ score < 60 => grade = "D"
    /\ \A a \in -25..150 : \A b \in a..150 :
          Rank(getPerformanceGrade(a)) <= Rank(getPerformanceGrade(b))

\* The dashboard shows a score that lies on a threshold.
GradeFollowsScoreWitness ==
    /\ score \in {60, 70, 80, 90}
    /\ grade \in {"A+", "A", "B", "C"}

\* The newest k entries of the data prop (all when there are fewer), oldest
\* first, by index.
Newest(d, k) == LET n == Min(k, Len(d)) IN [i \in 1..n |-> d[Len(d) - n + i]]

\* C11 (windows): the score shown is the score of the newest 10 samples alone
\* and the FPS Trend chart has one bar for each of the newest 20 samples, in
\* their order; when a sample is appended to 20 or more, the bars move up by
\* one and the oldest bar is gone.
WindowsAreNewest ==
    [][ /\ score' = getPerformanceScore(Newest(data', 10))
        /\ fpsTrend' = [i \in 1..Len(Newest(data', 20)) |->
                           Q(Newest(data', 20)[i].fps * 100, 60)]
        /\ ( /\ Len(data) >= 20
             /\ Len(data') = Len(data) + 1
             /\ SubSeq(data', 1, Len(data)) = data )
           => SubSeq(fpsTrend', 1, 19) = Tail(fpsTrend) ]_vars

\* The dashboard shows more than 20 samples, the oldest unlike the newest.
WindowsAreNewestWitness ==
    /\ Len(data) > 20
    /\ data[1] # data[Len(data)]
    /\ Len(fpsTrend) = 20
    /\ score # getPerformanceScore(SubSeq(data, 1, 10))


\* The unit names of the documentation, smallest first.
DocumentedUnits == <<"Bytes", "KB", "MB", "GB">>

IsDocumentedUnit(u) == \E r \in DOMAIN DocumentedUnits : DocumentedUnits[r] = u

\* C12 (file size text): 0 bytes reads "0 Bytes", 1,048,576 bytes reads
\* "1.00 MB", and every size reads as a number with two decimals and one of the
\* units Bytes, KB, MB, GB, the unit being the power of 1024 the size reaches.
FormatsAsDocumented ==
    formatted # NotFormatted =>
        /\ bytes = <<>> => formatted = [whole |-> 0, decimals |-> <<>>, unit |-> "Bytes"]
        /\ bytes = ToBytes(1048576)
              => formatted = [whole |-> 1, decimals |-> <<0, 0>>, unit |-> "MB"]
        /\ bytes # <<>> =>
              /\ IsDocumentedUnit(formatted.unit)
              /\ DocumentedUnits[Len(bytes)] = formatted.unit
              /\ Len(formatted.decimals) = 2

\* a <= b for byte counts.
RECURSIVE LeDigits(_, _, _)
LeDigits(a, b, j) ==
    IF j = 0 THEN TRUE
    ELSE IF a[j] # b[j] THEN a[j] < b[j]
    ELSE LeDigits(a, b, j - 1)

LeBytes(a, b) == Len(a) < Len(b) \/ (Len(a) = Len(b) /\ LeDigits(a, b, Len(a)))

\* The number a text shows, in hundredths.
RECURSIVE Pad(_)
Pad(ds) == IF Len(ds) < 2 THEN Pad(Append(ds, 0)) ELSE ds

Hundredths(f) == 100 * f.whole + 10 * Pad(f.decimals)[1] + Pad(f.decimals)[2]

UnitRank(u) == CHOOSE r \in DOMAIN DocumentedUnits : DocumentedUnits[r] = u

\* The quantity text f denotes (its number times its unit) is at most the
\* quantity g denotes; both units are documented ones.
DenotesAtMost(f, g) ==
    LET d == UnitRank(g.unit) - UnitRank(f.unit)
    IN  IF d = 0 THEN Hundredths(f) <= Hundredths(g)
        ELSE IF d = 1 THEN Hundredths(f) <= 1024 * Hundredths(g)
        ELSE IF d > 1 THEN Hundredths(g) >= 1 \/ Hundredths(f) = 0
        ELSE IF d = -1 THEN 1024 * Hundredths(f) <= Hundredths(g)
        ELSE Hundredths(f) = 0

\* C13 (monotone file size text): for byte counts a <= b both texts carry one
\* of the units Bytes, KB, MB, GB and the quantity the text of a denotes is at
\* most the quantity the text of b denotes.
FormatIsMonotone ==
    formatted # NotFormatted =>
        \A a \in ByteCounts :
            LeBytes(a, bytes) =>
                /\ IsDocumentedUnit(formatFileSize(a).unit)
                /\ IsDocumentedUnit(formatted.unit)
                /\ DenotesAtMost(formatFileSize(a), formatted)


\* Recorder i passes from stopping to stopped in the step.
Finalized(i) ==
    /\ i \in DOMAIN recorders
    /\ recorders[i].state = "inactive"
    /\ recorders'[i].state = "stopped"

\* The text formatFileSize gives for no bytes.
ZeroSize == formatFileSize(<<>>)

\* C14 (recording finalize): every stop of an active recording, once its stop
\* event is handled, adds exactly one entry, at index 0 and in front of the
\* earlier entries in their order, and the catalog changes in no other step;
\* the entry's size is not zero when the recording delivered at least one
\* non-empty segment.
StopAddsOneRecording ==
    [][ /\ (\E i \in DOMAIN recorders : Finalized(i)) <=> recordings' # recordings
        /\ recordings' # recordings =>
              /\ Len(recordings') = Len(recordings) + 1
              /\ Tail(recordings') = recordings
              /\ Finalized(Head(recordings').id)
              /\ recorders'[Head(recordings').id].segments > 0
                    => Head(recordings').size # ZeroSize ]_vars

\* C15 (stored duration): the duration of every entry of the catalog is the
\* number of ticks counted between the start and the stop of its recording.
DurationIsTicks ==
    \A k \in DOMAIN recordings : recordings[k].duration = recorders[recordings[k].id].ticks

\* Recorders that are recording.
Recording == {i \in DOMAIN recorders : recorders[i].state = "recording"}

\* C16 (one recording): at most one recorder is recording and at most one
\* duration timer is running, and none is unless the recording flag is set.
OneRecordingActive ==
    /\ Cardinality(Recording) <= 1
    /\ Cardinality(intervals) <= 1
    /\ ~isRecording => Recording = {} /\ intervals = {}

\* A second recording runs while the first, already stopped by the user, has
\* not delivered its stop event.
OneRecordingActiveWitness ==
    /\ isRecording
    /\ Len(recorders) = 2
    /\ recorders[1].state = "inactive"
    /\ Recording = {2}
    /\ intervals = {2}

\* C17 (catalog kept): no step removes, moves or changes an entry of the
\* catalog, and a download leaves the state of the studio as it was.
CatalogIsKept ==
    [][ /\ Len(recordings') >= Len(recordings)
        /\ \A k \in DOMAIN recordings :
              recordings'[Len(recordings') - Len(recordings) + k] = recordings[k]
        /\ output'.kind = "download" =>
              UNCHANGED <<propStreaming, isRecording, recordingTime, recordings,
                          recorders, mediaRecorderRef, recordedChunksRef, intervals,
                          recordingIntervalRef>> ]_vars

\* An entry is downloaded from a catalog of two while a third recording could
\* be started.
CatalogIsKeptWitness ==
    /\ Len(recordings) = 2
    /\ recordings[1] # recordings[2]
    /\ output.kind = "download"


\* stopCamera ran in the step.
StopStep == isStreaming /\ ~isStreaming'

\* C18 (stop): the step that stops the session leaves no capture cycle
\* scheduled, the transport of the session closing or closed, the gate clear,
\* the streaming flag false, fps, latency and bitrate 0 and the quality as it
\* was; and while the session is not streaming no cycle is scheduled and no
\* frame is transmitted.
StopResets ==
    [][ /\ StopStep =>
              /\ rafQueue' = {}
              /\ wsRef # 0 => ws'[wsRef].readyState \in {"CLOSING", "CLOSED"}
              /\ ~processingRef'
              /\ fps' = 0 /\ latency' = "0" /\ bitrate' = 0
              /\ quality' = quality
        /\ ~isStreaming' => rafQueue' = {} /\ wire' = NoFrame ]_vars

\* A session of quality SD has been stopped while the reply to a frame it had
\* sent is still being decoded; its transport is closing.
StopResetsWitness ==
    /\ ~isStreaming
    /\ quality = "SD"
    /\ wsRef # 0 /\ ws[wsRef].readyState = "CLOSING"
    /\ decodes # <<>>
    /\ ~processingRef
    /\ fps = 0 /\ latency = "0"


\* C19 (processed frame clears the gate): whenever a processed frame has been
\* handled while a frame is in flight (its image is loading, the counter below
\* the bound of the model), the gate is clear at some later point, unless the
\* session has lost its connection or was stopped by then; and the image load
\* that clears the gate adds exactly one to the processed-frame counter.
ProcessedFrameClearsGate ==
    /\ (decodes # <<>> /\ processingRef /\ processedFrames < MaxProcessed)
          ~> (~processingRef \/ ~isConnected \/ ~isStreaming)
    /\ [][ (Len(decodes') < Len(decodes) /\ processingRef /\ ~processingRef')
              => processedFrames' = processedFrames + 1 ]_vars


\* C20 (failed cycle): a cycle in which the snapshot, the encoding or the send
\* throws logs a frame processing error, transmits nothing, still schedules
\* the next cycle, and ends with the gate clear on the open transport, so that
\* the next cycle can send.
FailedCycleClearsGate ==
    [][ logged' = "frame_error" =>
            /\ wire' = NoFrame
            /\ ~processingRef'
            /\ CanSend(ws', wsRef', processingRef')
            /\ \E cb \in rafQueue' : cb.id = animationFrameRef' /\ cb.isStreaming ]_vars

\* A cycle has just failed: the error is in the feed, the gate is clear and
\* the next cycle is scheduled.
FailedCycleClearsGateWitness ==
    /\ logged = "frame_error"
    /\ isStreaming /\ isConnected
    /\ ~processingRef
    /\ rafQueue # {}


\* The transport wsRef names was open and its close event is handled in the step.
OwnedTransportLost ==
    /\ wsRef # 0 /\ ws[wsRef].readyState = "OPEN"
    /\ wsRef' # 0 /\ ws'[wsRef'].readyState = "CLOSED"

\* C21 (disconnect clears the gate): when the open transport of the session is
\* lost while a frame is in flight, the step that handles the loss leaves the
\* gate clear, so that the first cycle after the reconnect can send.
DisconnectClearsGate ==
    [][ (OwnedTransportLost /\ isStreaming /\ processingRef) => ~processingRef' ]_vars


\* The load of a pending image ends in the step, by onload or by a failure.
DecodeEnds == Len(decodes') < Len(decodes)

\* C22 (late reply): a processed frame whose image finishes loading after the
\* session was stopped (not streaming, the close event of the connected
\* transport still outstanding) changes neither the render surface nor the
\* processed-frame counter nor the latency.
LateReplyHasNoEffect ==
    [][ (~isStreaming /\ isConnected /\ DecodeEnds)
            => UNCHANGED <<canvas, processedFrames, latency>> ]_vars

\* C23 (stop resets the flags): once the session the studio records from has
\* stopped streaming, no recording is active.
StoppedSessionHasNoRecording == ~propStreaming => ~isRecording

\* C24 (stop clears): when the stop event of a stopped recording has been
\* handled and no other recording was started meanwhile, the segment buffer is
\* empty, the duration counter is zero and no duration timer is running.
StopClearsRecorder ==
    [][ ((\E i \in DOMAIN recorders : Finalized(i)) /\ ~isRecording')
            => /\ recordedChunksRef' = <<>>
               /\ recordingTime' = 0
               /\ intervals' = {} ]_vars

\* C25 (receipt order): processed frames are drawn in the order they were
\* received: an image load that completes and draws is that of the oldest
\* frame still loading, so the frame shown last is the one received last.
FramesShownInReceiptOrder ==
    [][ (DecodeEnds /\ processedFrames' # processedFrames)
            => decodes' = Tail(decodes) ]_vars

\* startRecording ended in its catch: the error is written to the console.
StartFails == output'.kind = "error"

\* C26 (failed start): a start that throws leaves the recording flag false, no
\* recorder recording, no duration timer running and the catalog as it was;
\* and a recorder is created only by a start made while the session streams
\* and no recording is active.
FailedStartLeavesNoRecording ==
    [][ /\ StartFails => /\ ~isRecording'
                         /\ Recording' = {}
                         /\ intervals' = {}
                         /\ recordings' = recordings
        /\ Len(recorders') > Len(recorders) => propStreaming /\ ~isRecording ]_vars

\* A start has thrown after an earlier recording was finalized.
FailedStartLeavesNoRecordingWitness ==
    /\ output.kind = "error"
    /\ recordings # <<>>
    /\ ~isRecording

\* C27 (connected means open): while the connected flag is set the transport
\* wsRef names is open, or is closing with its close event still to come, and
\* the connecting and the connected flag are never set together.
ConnectedMeansOpen ==
    /\ isConnected => wsRef # 0 /\ ws[wsRef].readyState \in {"OPEN", "CLOSING"}
    /\ ~(isConnecting /\ isConnected)

\* The session is streaming, the transport wsRef names is open, the video has
\* data and no frame is in flight.
ReadyToSend ==
    /\ isStreaming
    /\ wsRef # 0 /\ ws[wsRef].readyState = "OPEN"
    /\ SurfaceReady(video)
    /\ ~processingRef

\* C28 (progress): from a state in which the session is ready to send, either
\* a frame is transmitted or one of the conditions ceases to hold.
CaptureLoopProgresses == ReadyToSend ~> (wire # NoFrame \/ ~ReadyToSend)

\* C29 (one cycle scheduled): at most one capture-cycle callback is scheduled,
\* and the callback scheduled is the one animationFrameRef names.
OneCycleScheduled ==
    /\ Cardinality(rafQueue) <= 1
    /\ \A cb \in rafQueue : cb.id = animationFrameRef

\* A cycle is scheduled in a session that was started again while the
\* transport of the session before it had not yet gone.
OneCycleScheduledWitness ==
    /\ Cardinality(rafQueue) = 1
    /\ isStreaming /\ isConnected
    /\ Len(ws) = 2

\* C30 (share): a share hands over, under the name of an entry of the catalog,
\* the media of that entry, and a share leaves the catalog as it was, also
\* when the hand-off is rejected.
ShareHandsOverTheRecording ==
    [][ /\ output'.kind = "share"
            => \E k \in DOMAIN recordings :
                  /\ output'.title = recordings[k].id
                  /\ output'.file = recordings[k].thumbnail
        /\ output'.kind \in {"share", "shareerror"} => recordings' = recordings ]_vars

====
